---- MODULE Spec2Model ----
(***************************************************************************)
(* Hindi text normalization: the measure tagger (taggers/measure.py) and   *)
(* the punctuation post-processor (verbalizers/post_processing.py).        *)
(*                                                                         *)
(* A grammar is a weighted finite-state transducer.  It is written here as *)
(* the expression tree the Python code builds with pynini, one definition  *)
(* per Python variable, and evaluated by Run, which returns every path of  *)
(* the transducer over an input: where it ends, what it outputs and what   *)
(* it weighs (tropical semiring: weights add along a path, the best path   *)
(* is the one of least weight).                                            *)
(*                                                                         *)
(* Symbols are strings.  An input is a sequence of one-character symbols;  *)
(* Devanagari characters and words, which the tools cannot read inside a   *)
(* string, are written in Latin transliteration (the comment beside each   *)
(* gives the original).  Weights are integers in units of 0.0001, so that  *)
(* 0.1 is 1000, 1.05 is 10500 and MIN_NEG_WEIGHT (-0.0001) is -1.          *)
(***************************************************************************)
EXTENDS Integers, Sequences, FiniteSets, TLC

VARIABLES input, stage, lattice, best, output, dirs, files, ctor

vars == <<input, stage, lattice, best, output, dirs, files, ctor>>

\* the file system and the running constructions of PostProcessingFst
cacheVars == <<dirs, files, ctor>>

\* the text being normalized
textVars == <<input, stage, lattice, best, output>>

(***************************************************************************)
(* The pynini combinators.                                                 *)
(***************************************************************************)

\* pynini.union of single characters: an acceptor of one symbol of S
Accep(S) == [t |-> "cls", S |-> S]

\* pynini.string_map / pynini.string_file: a table of (input, output) pairs
StringMap(tab) ==
    [t |-> "map", tab |-> tab, keys |-> {p[1] : p \in tab}, lens |-> {Len(p[1]) : p \in tab}]

\* pynini.cross(i, o)
Cross(i, o) == StringMap({<<i, o>>})

\* pynini.cross(a, o) with a an acceptor: whatever a accepts is rewritten to o
CrossFst(a, o) == [t |-> "xo", a |-> a, o |-> o]

\* pynini.accep of a string
Str(s) == Cross(s, s)

\* pynutil.insert
Insert(o) == Cross(<<>>, o)

\* pynutil.delete
Delete(i) == Cross(i, <<>>)

\* a + b + ... (concatenation)
Cat(xs) == [t |-> "cat", xs |-> xs]

\* a | b | ... , pynini.union
Union(xs) == [t |-> "alt", xs |-> xs]

\* pynini.closure(x, lo, hi)
Closure(x, lo, hi) == [t |-> "rep", x |-> x, lo |-> lo, hi |-> hi]

\* pynini.closure(x): hi = -1 stands for no upper bound
Star(x) == Closure(x, 0, -1)

\* pynini.closure(x, 1)
Plus(x) == Closure(x, 1, -1)

\* pynutil.add_weight
AddWeight(x, w) == [t |-> "w", x |-> x, w |-> w]

\* pynini.compose
Compose(a, b) == [t |-> "cmp", a |-> a, b |-> b]

\* pynini.project(x, "input")
ProjectInput(x) == [t |-> "proj", x |-> x]

\* pynini.difference of two acceptors
Difference(a, b) == [t |-> "diff", a |-> a, b |-> b]

\* pynini.cdrewrite(cross(phi, psi), union of lambda, sigma*, sigma*): the obligatory
\* rule  phi -> psi / lambda _ , applied left to right
CDRewrite(phi, psi, lambda) == [t |-> "rw", phi |-> phi, psi |-> psi, lambda |-> lambda]

\* left-to-right application: the left context is read off what is already written
RECURSIVE Rewrite(_, _, _, _)
Rewrite(n, s, k, out) ==
    IF k > Len(s) THEN out
    ELSE IF s[k] = n.phi /\ out # <<>> /\ out[Len(out)] \in n.lambda
    THEN Rewrite(n, s, k + 1, out \o n.psi)
    ELSE Rewrite(n, s, k + 1, Append(out, s[k]))

\* Every path of transducer n over s from position i: <<next position, output, weight>>
RECURSIVE Run(_, _, _)
RECURSIVE RunCat(_, _, _, _)
RECURSIVE RunRep(_, _, _, _, _, _)
RECURSIVE RunStar(_, _, _, _)

Step(x, s, R) ==
    UNION {{<<q[1], r[2] \o q[2], r[3] + q[3]>> : q \in Run(x, s, r[1])} : r \in R}

RunCat(xs, k, s, R) ==
    IF k > Len(xs) \/ R = {} THEN R ELSE RunCat(xs, k + 1, s, Step(xs[k], s, R))

\* the fixpoint of unbounded repetition: seen holds every path found so far
RunStar(x, s, seen, frontier) ==
    IF frontier = {} THEN seen
    ELSE LET new == Step(x, s, frontier) \ seen
         IN RunStar(x, s, seen \cup new, new)

\* R holds the paths after exactly k repetitions
RunRep(x, lo, hi, s, R, k) ==
    IF R = {} THEN {}
    ELSE IF k < lo THEN RunRep(x, lo, hi, s, Step(x, s, R), k + 1)
    ELSE IF hi = -1 THEN RunStar(x, s, R, R)
    ELSE IF k >= hi THEN R
    ELSE R \cup RunRep(x, lo, hi, s, Step(x, s, R), k + 1)

Run(n, s, i) ==
    CASE n.t = "cls" ->
            IF i <= Len(s) /\ s[i] \in n.S THEN {<<i + 1, <<s[i]>>, 0>>} ELSE {}
      [] n.t = "map" ->
            UNION {LET key == SubSeq(s, i, i + l - 1)
                   IN IF key \in n.keys
                      THEN {<<i + l, p[2], 0>> : p \in {q \in n.tab : q[1] = key}}
                      ELSE {} :
                   l \in {m \in n.lens : i + m - 1 <= Len(s)}}
      [] n.t = "cat" -> RunCat(n.xs, 1, s, {<<i, <<>>, 0>>})
      [] n.t = "alt" -> UNION {Run(n.xs[k], s, i) : k \in 1..Len(n.xs)}
      [] n.t = "rep" -> RunRep(n.x, n.lo, n.hi, s, {<<i, <<>>, 0>>}, 0)
      [] n.t = "w" -> {<<r[1], r[2], r[3] + n.w>> : r \in Run(n.x, s, i)}
      [] n.t = "cmp" ->
            UNION {{<<r[1], q[2], r[3] + q[3]>> :
                        q \in {p \in Run(n.b, r[2], 1) : p[1] = Len(r[2]) + 1}} :
                   r \in Run(n.a, s, i)}
      [] n.t = "proj" -> {<<r[1], SubSeq(s, i, r[1] - 1), r[3]>> : r \in Run(n.x, s, i)}
      [] n.t = "xo" -> {<<r[1], n.o, r[3]>> : r \in Run(n.a, s, i)}
      [] n.t = "diff" ->
            {r \in Run(n.a, s, i) : \A q \in Run(n.b, s, i) : q[1] # r[1]}
      [] n.t = "rw" ->
            {<<j, Rewrite(n, SubSeq(s, i, j - 1), 1, <<>>), 0>> : j \in i..(Len(s) + 1)}

\* The paths of n that consume all of s: the lattice of  s @ n
Apply(n, s) == {[out |-> r[2], w |-> r[3]] : r \in {p \in Run(n, s, 1) : p[1] = Len(s) + 1}}

Accepts(n, s) == Apply(n, s) # {}

\* pynini.shortestpath: the paths of least weight (a tie is broken arbitrarily)
ShortestPaths(L) == {c \in L : \A d \in L : c.w <= d.w}


(***************************************************************************)
(* graph_utils.py: the primitive alphabet.  Chars is every symbol of the   *)
(* model's inputs: Arabic digits, Devanagari digits (D0..D9 for the glyphs *)
(* of 0..9), Latin letters, Devanagari letters (transliterated, with a     *)
(* trailing underscore), white space and punctuation.                      *)
(***************************************************************************)
Arabic == <<"0", "1", "2", "3", "4", "5", "6", "7", "8", "9">>

Devanagari == <<"D0", "D1", "D2", "D3", "D4", "D5", "D6", "D7", "D8", "D9">>

GlyphSets == {Arabic, Devanagari}

DigitChars(G) == {G[k] : k \in 1..10}

LowerLetters == {"a", "b", "d", "g", "k", "o", "r", "y", "x"}

UpperLetters == {"B", "R", "X"}

LatinLetters == LowerLetters \cup UpperLetters

\* Devanagari letters: ro_ da_ (road), o_ ka_ (oak), mum_ bai_ (Mumbai), go_ va_ (Goa),
\* ki_ lo_ (kilo), vaan_ (the ordinal suffix)
HindiLetters == {"ro_", "da_", "o_", "ka_", "mum_", "bai_", "go_", "va_", "ki_", "lo_",
                 "vaan_"}

NEMO_SPACE == " "

NEMO_WHITE_SPACE == {" ", "\t"}

COMMA == ","

PERIOD == "."

\* the danda
HI_PERIOD == "|"

HYPHEN == "-"

SLASH == "/"

ASTERISK == "*"

LOWERCASE_X == "x"

UPPERCASE_X == "X"

NEMO_DIGIT == DigitChars(Arabic)

NEMO_HI_DIGIT == DigitChars(Devanagari)

Punctuation == {COMMA, PERIOD, HI_PERIOD, HYPHEN, SLASH, ASTERISK, "(", ")", "[", "\"", "!"}

NEMO_CHAR ==
    NEMO_DIGIT \cup NEMO_HI_DIGIT \cup LatinLetters \cup HindiLetters
        \cup NEMO_WHITE_SPACE \cup Punctuation

NEMO_NOT_SPACE == NEMO_CHAR \ NEMO_WHITE_SPACE

\* pynutil.delete(pynini.closure(NEMO_WHITE_SPACE))
delete_space == Star(CrossFst(Accep(NEMO_WHITE_SPACE), <<>>))

\* pynutil.insert(" ")
insert_space == Insert(<<" ">>)

\* the idiom words: sadhe (half more), dedh (1.5), dhai (2.5), savva (quarter
\* more), paune (quarter less), and the connector of  2x3
HI_SADHE == "sadhe"

HI_DEDH == "dedh"

HI_DHAI == "dhai"

HI_SAVVA == "savva"

HI_PAUNE == "paune"

HI_BY == "by"

DigitValue(c) == CHOOSE d \in 0..9 : Arabic[d + 1] = c

\* a literal, given in Arabic digits, written in glyph set G
Literal(G, lit) ==
    [k \in 1..Len(lit) |-> IF lit[k] \in NEMO_DIGIT THEN G[DigitValue(lit[k]) + 1] ELSE lit[k]]

EitherGlyph(lit) == Union(<<Str(Literal(Devanagari, lit)), Str(Literal(Arabic, lit))>>)

POINT_FIVE == EitherGlyph(<<".", "5">>)

ONE_POINT_FIVE == EitherGlyph(<<"1", ".", "5">>)

TWO_POINT_FIVE == EitherGlyph(<<"2", ".", "5">>)

DECIMAL_25 == EitherGlyph(<<".", "2", "5">>)

DECIMAL_75 == EitherGlyph(<<".", "7", "5">>)

(***************************************************************************)
(* The cardinal and decimal taggers, which measure.py takes as arguments.  *)
(* A spoken digit is the word below; the suppletive word of a two-digit    *)
(* number ab (Hindi has one word for each of 10..99) is written nab.       *)
(***************************************************************************)
DigitWord == <<"shunya", "ek", "do", "teen", "char", "panch", "chhah", "saat", "aath", "nau">>

\* data/numbers/digit.tsv: 1..9
digit_tsv(G) == {<<<<G[d + 1]>>, <<DigitWord[d + 1]>>>> : d \in 1..9}

\* data/numbers/zero.tsv
zero_tsv(G) == {<<<<G[1]>>, <<DigitWord[1]>>>>}

\* data/numbers/teens_and_ties.tsv (Devanagari), teens_and_ties_en.tsv (Arabic): 10..99
teens_and_ties_tsv(G) ==
    {<<<<G[a + 1], G[b + 1]>>, <<"n" \o Arabic[a + 1] \o Arabic[b + 1]>>>> : a \in 1..9, b \in 0..9}

cardinal_digit == StringMap(digit_tsv(Arabic) \cup digit_tsv(Devanagari))

cardinal_zero == StringMap(zero_tsv(Arabic) \cup zero_tsv(Devanagari))

teens_ties == StringMap(teens_and_ties_tsv(Devanagari) \cup teens_and_ties_tsv(Arabic))

cardinal_teens_and_ties == AddWeight(teens_ties, -1000)

delete_zero == Delete(<<"0">>)

delete_hi_zero == Delete(<<"D0">>)

DeleteZero == Union(<<delete_zero, delete_hi_zero>>)

\* the words of the named tiers: sau (hundred), hazar (thousand), lakh
TierWord == <<"", "", "sau", "hazar", "hazar", "lakh", "lakh">>

\* The number of exactly m digits, no leading zero; Rest(k): the k digits after a
\* tier's head, which are all zero (and silent) or a smaller number after zeros
RECURSIVE Tier(_)
RECURSIVE Rest(_)
RECURSIVE RestBranches(_, _)

Zeros(k) == Closure(DeleteZero, k, k)

Tier(m) ==
    CASE m = 1 -> cardinal_digit
      [] m = 2 -> cardinal_teens_and_ties
      [] m \in {3, 4, 6} -> Cat(<<cardinal_digit, Insert(<<" ", TierWord[m]>>), Rest(m - 1)>>)
      [] m \in {5, 7} -> Cat(<<cardinal_teens_and_ties, Insert(<<" ", TierWord[m]>>), Rest(m - 2)>>)

\* after j silent zeros, a number of k - j digits
RestBranches(k, j) ==
    IF j = k THEN <<Zeros(k)>>
    ELSE <<Cat(<<Zeros(j), insert_space, Tier(k - j)>>)>> \o RestBranches(k, j + 1)

Rest(k) == Union(RestBranches(k, 0))

cardinal_graph_hundreds == Tier(3)

cardinal_graph_thousands == Tier(4)

cardinal_graph_ten_thousands == Tier(5)

cardinal_graph_lakhs == Tier(6)

cardinal_graph_ten_lakhs == Tier(7)

\* the variant of the cardinal grammar that excludes the leading-zero forms
cardinal_graph_without_leading_zeros ==
    Union(<<cardinal_zero, cardinal_digit, cardinal_teens_and_ties, cardinal_graph_hundreds,
            cardinal_graph_thousands, cardinal_graph_ten_thousands, cardinal_graph_lakhs,
            cardinal_graph_ten_lakhs>>)

\* the digits after the point, spoken one by one
decimal_graph_fractional ==
    Cat(<<Insert(<<"fractional_part:", " ", "\"">>),
          Union(<<cardinal_digit, cardinal_zero>>),
          Star(Cat(<<insert_space, Union(<<cardinal_digit, cardinal_zero>>)>>)),
          Insert(<<"\"">>)>>)

(***************************************************************************)
(* taggers/measure.py, MeasureFst.__init__.  The rows of the data tables   *)
(* are a sample of the files the code loads.                               *)
(***************************************************************************)
\* data/measure/unit.tsv: kg -> kilogram, g -> gram, yr -> saal (informal year)
unit_tsv ==
    {<<<<"k", "g">>, <<"kilogram">>>>, <<<<"g">>, <<"gram">>>>, <<<<"y", "r">>, <<"saal">>>>}

\* data/measure/unit_year_formal.tsv: yr -> varsh (formal year)
unit_year_formal_tsv == {<<<<"y", "r">>, <<"varsh">>>>}

\* data/measure/quarterly_units_map.tsv
quarterly_units_map_tsv == {<<<<"k", "g">>, <<"kilogram">>>>, <<<<"y", "r">>, <<"saal">>>>}

\* data/measure/quarterly_units_list.tsv: unit names already spelled out (kilo)
quarterly_units_list_tsv == {<<<<"ki_", "lo_">>, <<"ki_", "lo_">>>>}

\* data/whitelist/paune_mappings.tsv: n -> the word of n + 1 (1.75 is "a quarter less than two")
paune_mappings_tsv ==
    {<<<<G[n + 1]>>, <<DigitWord[n + 2]>>>> : G \in GlyphSets, n \in 1..8}

cardinal_graph ==
    Union(<<cardinal_zero, cardinal_digit, cardinal_teens_and_ties, cardinal_graph_hundreds,
            cardinal_graph_thousands, cardinal_graph_ten_thousands, cardinal_graph_lakhs,
            cardinal_graph_ten_lakhs>>)

point == Delete(<<".">>)

decimal_integers == Cat(<<Insert(<<"integer_part:", " ", "\"">>), cardinal_graph, Insert(<<"\"">>)>>)

decimal_graph == Cat(<<decimal_integers, point, insert_space, decimal_graph_fractional>>)

unit_graph == StringMap(unit_tsv)

year_informal == StringMap({<<<<"y", "r">>, <<"saal">>>>})

year_formal == StringMap(unit_year_formal_tsv)

unit_inputs_except_yr == Difference(ProjectInput(unit_graph), Str(<<"y", "r">>))

unit_graph_no_year == Compose(unit_inputs_except_yr, unit_graph)

quarterly_units_map == StringMap(quarterly_units_map_tsv)

quarterly_units_list == StringMap(quarterly_units_list_tsv)

quarterly_units_graph == Union(<<quarterly_units_map, quarterly_units_list>>)

\* optional_graph_negative with the sign deleted and no negative field written
optional_graph_negative_untagged == Closure(Delete(<<"-">>), 0, 1)

optional_graph_negative ==
    Closure(Cat(<<Insert(<<"negative:", " ">>), Cross(<<"-">>, <<"\"true\"">>), insert_space>>), 0, 1)

unit ==
    Cat(<<Insert(<<NEMO_SPACE>>), Insert(<<"units:", " ", "\"">>), unit_graph_no_year,
          Insert(<<"\"">>), Insert(<<NEMO_SPACE>>)>>)

units ==
    Cat(<<Insert(<<NEMO_SPACE>>), Insert(<<"units:", " ", "\"">>), quarterly_units_graph,
          Insert(<<"\"">>), Insert(<<NEMO_SPACE>>)>>)

unit_year_informal ==
    Cat(<<Insert(<<NEMO_SPACE>>), Insert(<<"units:", " ", "\"">>), year_informal,
          Insert(<<"\"">>), Insert(<<NEMO_SPACE>>)>>)

unit_year_formal ==
    Cat(<<Insert(<<NEMO_SPACE>>), Insert(<<"units:", " ", "\"">>), year_formal,
          Insert(<<"\"">>), Insert(<<NEMO_SPACE>>)>>)

cardinal_large == cardinal_graph_without_leading_zeros

\* cardinal_small reaching into the thousands
cardinal_small_with_thousands ==
    Union(<<cardinal_zero, cardinal_digit, cardinal_teens_and_ties, cardinal_graph_hundreds,
            cardinal_graph_thousands>>)

cardinal_small ==
    Union(<<cardinal_zero, cardinal_digit, cardinal_teens_and_ties, cardinal_graph_hundreds>>)

symbol_graph ==
    StringMap({<<<<LOWERCASE_X>>, <<HI_BY>>>>, <<<<UPPERCASE_X>>, <<HI_BY>>>>,
               <<<<ASTERISK>>, <<HI_BY>>>>})

graph_decimal ==
    Cat(<<Insert(<<"decimal", " ", "{", " ">>), optional_graph_negative, decimal_graph,
          Insert(<<" ", "}">>), delete_space, unit>>)

dedh_dhai ==
    Union(<<CrossFst(ONE_POINT_FIVE, <<HI_DEDH>>), CrossFst(TWO_POINT_FIVE, <<HI_DHAI>>)>>)

dedh_dhai_graph == Cat(<<Insert(<<"integer:", " ", "\"">>), dedh_dhai, Insert(<<"\"">>)>>)

savva_numbers == Cat(<<cardinal_graph, CrossFst(DECIMAL_25, <<>>)>>)

savva_graph ==
    Cat(<<Insert(<<"integer:", " ", "\"">>), Insert(<<HI_SAVVA>>), Insert(<<NEMO_SPACE>>),
          savva_numbers, Insert(<<"\"">>)>>)

sadhe_numbers == Cat(<<cardinal_graph, CrossFst(POINT_FIVE, <<>>)>>)

sadhe_graph ==
    Cat(<<Insert(<<"integer:", " ", "\"">>), Insert(<<HI_SADHE>>), Insert(<<NEMO_SPACE>>),
          sadhe_numbers, Insert(<<"\"">>)>>)

paune == StringMap(paune_mappings_tsv)

paune_numbers == Cat(<<paune, CrossFst(DECIMAL_75, <<>>)>>)

paune_graph ==
    Cat(<<Insert(<<"integer:", " ", "\"">>), Insert(<<HI_PAUNE>>), Insert(<<NEMO_SPACE>>),
          paune_numbers, Insert(<<"\"">>)>>)

graph_dedh_dhai ==
    Cat(<<Insert(<<"cardinal", " ", "{", " ">>), optional_graph_negative, dedh_dhai_graph,
          Insert(<<NEMO_SPACE>>), Insert(<<"}">>), delete_space, units>>)

graph_savva ==
    Cat(<<Insert(<<"cardinal", " ", "{", " ">>), optional_graph_negative, savva_graph,
          Insert(<<NEMO_SPACE>>), Insert(<<"}">>), delete_space, units>>)

graph_sadhe ==
    Cat(<<Insert(<<"cardinal", " ", "{", " ">>), optional_graph_negative, sadhe_graph,
          Insert(<<NEMO_SPACE>>), Insert(<<"}">>), delete_space, units>>)

graph_paune ==
    Cat(<<Insert(<<"cardinal", " ", "{", " ">>), optional_graph_negative, paune_graph,
          Insert(<<" ", "}">>), delete_space, units>>)

graph_cardinal ==
    Cat(<<Insert(<<"cardinal", " ", "{", " ">>), optional_graph_negative,
          Insert(<<"integer:", " ", "\"">>), cardinal_graph, Insert(<<"\"">>),
          Insert(<<NEMO_SPACE>>), Insert(<<"}">>), delete_space, unit>>)

graph_cardinal_year_formal ==
    Cat(<<Insert(<<"cardinal", " ", "{", " ">>), optional_graph_negative,
          Insert(<<"integer:", " ", "\"">>), cardinal_large, Insert(<<"\"">>),
          Insert(<<NEMO_SPACE>>), Insert(<<"}">>), delete_space, unit_year_formal>>)

graph_cardinal_year_informal ==
    Cat(<<Insert(<<"cardinal", " ", "{", " ">>), optional_graph_negative,
          Insert(<<"integer:", " ", "\"">>), cardinal_small, Insert(<<"\"">>),
          Insert(<<NEMO_SPACE>>), Insert(<<"}">>), delete_space, unit_year_informal>>)

graph_decimal_year_formal ==
    Cat(<<Insert(<<"decimal", " ", "{", " ">>), optional_graph_negative, decimal_graph,
          Insert(<<" ", "}">>), delete_space, unit_year_formal>>)

\* graph_exceptions closing only the cardinal group before the second token opens
graph_exceptions_one_brace ==
    Cat(<<Insert(<<"cardinal", " ", "{", " ">>), optional_graph_negative,
          Insert(<<"integer:", " ", "\"">>), cardinal_graph, Insert(<<"\"">>),
          Insert(<<" ", "}">>), Insert(<<NEMO_SPACE>>), Insert(<<"units:", " ", "\"">>),
          symbol_graph, Insert(<<"\"">>), Insert(<<NEMO_SPACE>>), Insert(<<"}">>),
          insert_space, Insert(<<"tokens", " ", "{", " ", "cardinal", " ", "{", " ">>),
          optional_graph_negative, Insert(<<"integer:", " ", "\"">>), cardinal_graph,
          Insert(<<"\"">>)>>)

graph_exceptions ==
    Cat(<<Insert(<<"cardinal", " ", "{", " ">>), optional_graph_negative,
          Insert(<<"integer:", " ", "\"">>), cardinal_graph, Insert(<<"\"">>),
          Insert(<<" ", "}">>), Insert(<<NEMO_SPACE>>), Insert(<<"units:", " ", "\"">>),
          symbol_graph, Insert(<<"\"">>), Insert(<<NEMO_SPACE>>), Insert(<<"}", " ", "}">>),
          insert_space, Insert(<<"tokens", " ", "{", " ", "cardinal", " ", "{", " ">>),
          optional_graph_negative, Insert(<<"integer:", " ", "\"">>), cardinal_graph,
          Insert(<<"\"">>)>>)

(***************************************************************************)
(* taggers/measure.py, module level and the two address grammars.          *)
(***************************************************************************)
digit == StringMap(digit_tsv(Devanagari))

\* data/telephone/number.tsv: the Arabic digits 0..9
telephone_number_tsv == digit_tsv(Arabic) \cup zero_tsv(Arabic)

\* data/address/states.tsv (Goa) and data/address/cities.tsv (Mumbai)
states_tsv == {<<<<"go_", "va_">>, <<"go_", "va_">>>>}

cities_tsv == {<<<<"mum_", "bai_">>, <<"mum_", "bai_">>>>}

\* data/address/special_characters.tsv
special_characters_tsv == {<<<<HYPHEN>>, <<"hyphen">>>>, <<<<SLASH>>, <<"slash">>>>}

\* data/address/letters.tsv: A -> e, B -> bee, ...; the spoken letter c is written letter_c
letters_tsv == {<<<<c>>, <<"letter_" \o c>>>> : c \in UpperLetters}

\* data/address/context.tsv: the Hindi address keywords (road)
context_tsv == {<<<<"ro_", "da_">>, <<"ro_", "da_">>>>}

\* data/address/en_to_hi_mapping.tsv: road -> its Hindi transliteration
en_to_hi_mapping_tsv == {<<<<"r", "o", "a", "d">>, <<"ro_", "da_">>>>}

INPUT_LOWER_CASED == "lower_cased"

\* the constructor's input_case argument
input_case == "cased"

Capital(c) == IF c = "r" THEN "R" ELSE IF c = "x" THEN "X" ELSE c

\* graph_utils.capitalized_input_graph: each entry also with its first letter in capital
capitalized_input_graph(tab) ==
    tab \cup {<<<<Capital(p[1][1])>> \o Tail(p[1]), p[2]>> : p \in tab}

\* ordinal.graph: a cardinal with an ordinal suffix, e.g. 5vaan_ -> panchvaan_ (fifth)
ordinal_graph == Cat(<<cardinal_graph, Str(<<"vaan_">>)>>)

\* ---- get_structured_address_graph
states == StringMap(states_tsv)

cities == StringMap(cities_tsv)

state_city_names == Union(<<states, cities>>)

num_token == Union(<<digit, StringMap(zero_tsv(Devanagari)), StringMap(telephone_number_tsv)>>)

\* pincode with the closure open below: one to six digits
pincode_open_below == Cat(<<num_token, Closure(Cat(<<insert_space, num_token>>), 0, 5)>>)

pincode == Cat(<<num_token, Closure(Cat(<<insert_space, num_token>>), 5, 5)>>)

street_num == Cat(<<num_token, Closure(Cat(<<insert_space, num_token>>), 0, 3)>>)

any_digit == NEMO_HI_DIGIT \cup NEMO_DIGIT

punctuation == {COMMA, PERIOD, HI_PERIOD}

word_char == Accep(NEMO_NOT_SPACE \ (any_digit \cup punctuation))

word == Plus(word_char)

sep == Cat(<<Closure(Str(<<COMMA>>), 0, 1), Str(<<NEMO_SPACE>>)>>)

word_with_sep == Cat(<<word, sep>>)

text == Closure(word_with_sep, 0, 5)

pattern ==
    Cat(<<Closure(Cat(<<street_num, sep>>), 0, 1), text, state_city_names,
          Closure(Cat(<<Str(<<NEMO_SPACE>>), pincode>>), 0, 1)>>)

structured_graph ==
    Cat(<<Insert(<<"units:", " ", "\"address\"", " ", "cardinal", " ", "{", " ", "integer:", " ", "\"">>),
          pattern,
          Insert(<<"\"", " ", "}", " ", "preserve_order:", " ", "true">>)>>)

get_structured_address_graph == AddWeight(structured_graph, 10000)

\* ---- get_address_graph
char_to_word ==
    Union(<<digit, StringMap(zero_tsv(Devanagari)), StringMap(special_characters_tsv),
            StringMap(telephone_number_tsv)>>)

letter_to_word == StringMap(letters_tsv)

address_keywords_hi == StringMap(context_tsv)

en_to_hi_map ==
    StringMap(IF input_case # INPUT_LOWER_CASED
              THEN capitalized_input_graph(en_to_hi_mapping_tsv)
              ELSE en_to_hi_mapping_tsv)

address_keywords_en == ProjectInput(en_to_hi_map)

address_keywords == Union(<<address_keywords_hi, address_keywords_en>>)

single_digit == NEMO_DIGIT \cup NEMO_HI_DIGIT

special_chars == {HYPHEN, SLASH}

single_letter == {p[1][1] : p \in letters_tsv}

convertible_char == single_digit \cup special_chars \cup single_letter

non_space_char == NEMO_CHAR \ (NEMO_WHITE_SPACE \cup convertible_char \cup {COMMA})

comma_processor == AddWeight(Cat(<<delete_space, Str(<<COMMA>>)>>), 0)

ordinal_processor == AddWeight(Cat(<<insert_space, ordinal_graph>>), -50000)

english_word_processor == AddWeight(Cat(<<insert_space, en_to_hi_map>>), -30000)

letter_processor ==
    AddWeight(Cat(<<insert_space, Compose(Accep(single_letter), letter_to_word)>>), 5000)

digit_char_processor ==
    AddWeight(Cat(<<insert_space, Compose(Accep(convertible_char), char_to_word)>>), 0)

other_word_processor == AddWeight(Cat(<<insert_space, Plus(Accep(non_space_char))>>), 1000)

token_processor ==
    Union(<<ordinal_processor, english_word_processor, letter_processor, digit_char_processor,
            Str(<<NEMO_SPACE>>), comma_processor, other_word_processor>>)

full_string_processor == Plus(token_processor)

word_boundary == NEMO_WHITE_SPACE \cup {COMMA, HI_PERIOD, PERIOD}

non_boundary_char == NEMO_CHAR \ word_boundary

address_word == Plus(Accep(non_boundary_char))

word_with_boundary == Cat(<<address_word, Star(Accep(word_boundary))>>)

\* window one word wider
window_of_six == Closure(word_with_boundary, 0, 6)

window == Closure(word_with_boundary, 0, 5)

boundary == Plus(Accep(word_boundary))

input_pattern ==
    Union(<<Cat(<<address_keywords, boundary, window>>),
            Cat(<<window, boundary, address_keywords,
                  Closure(Cat(<<boundary, window>>), 0, 1)>>)>>)

address_graph == Compose(input_pattern, full_string_processor)

contextual_graph ==
    Cat(<<Insert(<<"units:", " ", "\"address\"", " ", "cardinal", " ", "{", " ", "integer:", " ", "\"">>),
          address_graph,
          Insert(<<"\"", " ", "}", " ", "preserve_order:", " ", "true">>)>>)

get_address_graph == AddWeight(contextual_graph, 10500)

(***************************************************************************)
(* MeasureFst.__init__: the weighted union of the alternatives, and        *)
(* self.fst = add_tokens(graph).                                           *)
(***************************************************************************)
\* the weights of the alternatives of  graph  (0.1 is 1000)
weight_graph_decimal == 1000

weight_graph_decimal_year_formal == 1000

weight_graph_cardinal == 1000

weight_graph_cardinal_year_formal == 1000

weight_graph_cardinal_year_informal == -1000

weight_graph_exceptions == 1000

weight_graph_dedh_dhai == -2000

weight_graph_savva == -1000

weight_graph_sadhe == -1000

\* the weight of graph_paune with its sign lost
weight_graph_paune_positive == 5000

weight_graph_paune == -5000

\* the alternatives of  graph , in the order of the source
Alternatives ==
    << [name |-> "graph_decimal", g |-> AddWeight(graph_decimal, weight_graph_decimal)],
       [name |-> "graph_decimal_year_formal",
        g |-> AddWeight(graph_decimal_year_formal, weight_graph_decimal_year_formal)],
       [name |-> "graph_cardinal", g |-> AddWeight(graph_cardinal, weight_graph_cardinal)],
       [name |-> "graph_cardinal_year_formal",
        g |-> AddWeight(graph_cardinal_year_formal, weight_graph_cardinal_year_formal)],
       [name |-> "graph_cardinal_year_informal",
        g |-> AddWeight(graph_cardinal_year_informal, weight_graph_cardinal_year_informal)],
       [name |-> "graph_exceptions", g |-> AddWeight(graph_exceptions, weight_graph_exceptions)],
       [name |-> "graph_dedh_dhai", g |-> AddWeight(graph_dedh_dhai, weight_graph_dedh_dhai)],
       [name |-> "graph_savva", g |-> AddWeight(graph_savva, weight_graph_savva)],
       [name |-> "graph_sadhe", g |-> AddWeight(graph_sadhe, weight_graph_sadhe)],
       [name |-> "graph_paune", g |-> AddWeight(graph_paune, weight_graph_paune)],
       [name |-> "address_graph", g |-> get_address_graph],
       [name |-> "structured_address_graph", g |-> get_structured_address_graph] >>

RECURSIVE Graphs(_)
Graphs(k) == IF k > Len(Alternatives) THEN <<>> ELSE <<Alternatives[k].g>> \o Graphs(k + 1)

graph == Union(Graphs(1))

\* GraphFst.add_tokens of a grammar named "measure"
add_tokens(fst) == Cat(<<Insert(<<"measure", " ", "{", " ">>), fst, Insert(<<" ", "}">>)>>)

final_graph == add_tokens(graph)

\* The lattice of  s @ self.fst : every path, with the alternative it runs through
Lattice(s) ==
    UNION {{[alt |-> Alternatives[k].name, out |-> c.out, w |-> c.w] :
                c \in Apply(add_tokens(Alternatives[k].g), s)} :
           k \in 1..Len(Alternatives)}

\* the tokenizer's wrapping of one classified token
WrapTokens(out) == <<"tokens", " ", "{", " ">> \o out \o <<" ", "}">>

NoPath == [alt |-> "none", out |-> <<>>, w |-> 0]

(***************************************************************************)
(* The inputs.  A measure input is an optional "-", a number, optional     *)
(* white space and a unit; the numbers are the digit strings of up to      *)
(* MaxDigits digits over ModelDigits, in either glyph set, and decimals.   *)
(***************************************************************************)
MaxDigits == 4

ModelDigits == {"0", "1", "9"}

RECURSIVE DigitStrings(_)
DigitStrings(n) ==
    IF n = 0 THEN {<<>>}
    ELSE LET shorter == DigitStrings(n - 1)
         IN shorter \cup {<<d>> \o t : d \in ModelDigits, t \in {u \in shorter : Len(u) = n - 1}}

Cardinals == DigitStrings(MaxDigits) \ {<<>>}

IntegerParts == {<<"0">>, <<"1">>, <<"2">>, <<"3">>, <<"1", "2">>, <<"1", "0", "0", "0">>}

FractionalParts == {<<"5">>, <<"2", "5">>, <<"7", "5">>, <<"0", "7">>, <<"2">>}

DecimalsIn(G) == {Literal(G, a \o <<".">> \o b) : a \in IntegerParts, b \in FractionalParts}

Decimals == DecimalsIn(Arabic) \cup DecimalsIn(Devanagari)

Signs == {<<>>, <<"-">>}

CardinalInputs ==
    {sg \o n \o u : sg \in Signs, n \in Cardinals, u \in {<<"k", "g">>, <<"y", "r">>}}

DecimalInputs ==
    {sg \o n \o u : sg \in Signs, n \in Decimals,
                    u \in {<<"k", "g">>, <<"y", "r">>, <<"ki_", "lo_">>, <<>>}}

\* white space between the number and the unit, Devanagari cardinals, a unit alone
OtherInputs ==
    {sg \o n \o sp \o u :
        sg \in Signs, sp \in {<<>>, <<" ">>, <<" ", " ">>},
        n \in {<<"D1", "D2">>, <<"D7">>, <<"1", "2">>, <<"1", ".", "5">>, <<>>},
        u \in {<<"k", "g">>, <<"y", "r">>, <<"g">>}}

MeasureInputs == CardinalInputs \cup DecimalInputs \cup OtherInputs

\* a cardinal, one of x X *, a cardinal: "2x3"
ExceptionOperands == {<<"1">>, <<"1", "2">>, <<"D9">>, <<"0", "1">>}

ExceptionInputs ==
    {sa \o a \o <<x>> \o sb \o b :
        sa \in Signs, sb \in Signs, a \in ExceptionOperands, b \in ExceptionOperands,
        x \in {LOWERCASE_X, UPPERCASE_X, ASTERISK, "k"}}

(***************************************************************************)
(* Address inputs.  A structured input is built from a numeric prefix, a   *)
(* number of one-letter words, a place name and a postal code; a           *)
(* contextual input is a keyword with a number of words on each side.      *)
(***************************************************************************)
MaxPrefixDigits == 5

MaxTextWords == 6

MaxPinDigits == 7

MaxWindowWords == 6

RECURSIVE Repeat(_, _)
Repeat(x, n) == IF n = 0 THEN <<>> ELSE x \o Repeat(x, n - 1)

\* n digits, the glyph sets alternating
RECURSIVE SomeDigits(_)
SomeDigits(n) ==
    IF n = 0 THEN <<>>
    ELSE SomeDigits(n - 1) \o <<(IF n % 2 = 0 THEN Devanagari ELSE Arabic)[(n % 10) + 1]>>

PlaceInputs == {<<"mum_", "bai_">>, <<>>}

StructuredInputs ==
    {(IF p = 0 THEN <<>> ELSE SomeDigits(p) \o ps) \o Repeat(w, n) \o place
            \o (IF z = 0 THEN <<>> ELSE <<" ">> \o SomeDigits(z)) :
        p \in 0..MaxPrefixDigits, ps \in {<<" ">>, <<",", " ">>},
        w \in {<<"o_", " ">>, <<"ka_", ",", " ">>}, n \in 0..MaxTextWords,
        place \in PlaceInputs, z \in {0} \cup (5..MaxPinDigits)}

KeywordInputs == {<<"ro_", "da_">>, <<"r", "o", "a", "d">>}

\* words before, a keyword, words after; the glue is what stands between the
\* keyword and its neighbours: white space, a comma, or nothing (no boundary)
WindowInputs ==
    {Repeat(wb \o <<" ">>, b) \o gb \o k \o ga \o Repeat(<<" ">> \o wa, a) :
        b \in 0..MaxWindowWords, a \in 0..MaxWindowWords,
        wb \in {<<"o_">>, <<"7">>}, wa \in {<<"o_">>},
        gb \in {<<>>}, ga \in {<<>>}, k \in KeywordInputs}

OtherAddressInputs ==
    { <<"ro_", "da_">>, <<"ro_", "da_", " ">>, <<" ", "ro_", "da_">>,
      <<"r", "o", "a", "d", " ", "mum_", "bai_">>,
      <<"R", "o", "a", "d", " ", "mum_", "bai_">>,
      <<"ro_", "da_", " ", "mum_", "bai_">>,
      <<"o_", ",", " ", "ro_", "da_", " ", "mum_", "bai_", " ", "1", "2", "3", "4", "5", "6">>,
      <<"o_", "ro_", "da_">>, <<"ro_", "da_", "o_", " ", "7">>, <<"7", "ro_", "da_">>,
      <<"o_", " ", "o_", "ro_", "da_", " ", "o_">>,
      <<"o_", ",", "ro_", "da_">>, <<"ro_", "da_", "|", "o_">>, <<"ro_", "da_", ".", "7">>,
      <<"1", "2", "vaan_", " ", "ro_", "da_">>, <<"D5", "vaan_", " ", "ro_", "da_", " ", "7">>,
      <<"0", "9", "vaan_", " ", "r", "o", "a", "d">>,
      <<"D6", "D6", "-", "4", " ", "ka_", "o_", " ", "ro_", "da_">>,
      <<"7", "/", "B", " ", "ro_", "da_">>, <<"ro_", "da_", " ", "B", "-", "1", "9">>,
      <<"b", "r", "o", "a", "d", " ", "ro_", "da_">>,
      <<"ro_", "da_", " ", "1", "2", "k", "g">>, <<"1", "2", "k", "g">>,
      <<"ro_", "da_", " ", "ro_", "da_">>,
      <<"ro_", "da_">> \o Repeat(<<" ", "o_">>, 6) \o <<" ", "ro_", "da_">>,
      <<"ro_", "da_">> \o Repeat(<<" ", "o_">>, 5) \o <<" ", "ro_", "da_">>,
      <<"ro_", "da_">> \o Repeat(<<" ", "o_">>, 4) \o <<" ", "ro_", "da_">> }

AddressInputs == StructuredInputs \cup WindowInputs \cup OtherAddressInputs

(***************************************************************************)
(* verbalizers/post_processing.py: get_punct_postprocess_graph.            *)
(***************************************************************************)
\* graph_utils.MIN_NEG_WEIGHT, -0.0001
MIN_NEG_WEIGHT == -1

Range(xs) == {xs[k] : k \in 1..Len(xs)}

\* PunctuationFst().punct_marks: the punctuation of the alphabet; the square brackets
\* are not among the marks
punct_marks_all == {COMMA, PERIOD, HI_PERIOD, HYPHEN, SLASH, ASTERISK, "(", ")", "\"", "!"}

\* the third is the left guillemet
quotes == <<"'", "\"", "<<">>

\* the second is the em dash
dashes == <<"-", "--">>

\* the last is the escaped square bracket, as the list spells it
brackets == <<"<", "{", "(", "\\[">>

\* allow_space_before_punct with the dashes left out
allow_space_before_punct_without_dashes == quotes \o brackets

allow_space_before_punct == quotes \o dashes \o brackets

no_space_before_punct ==
    {m \in punct_marks_all : m \notin Range(allow_space_before_punct)}
        \cup {HI_PERIOD, ",", ".", ";", ":", "!", "?"}

delete_one_space == Delete(<<" ">>)

non_punct == Difference(Accep(NEMO_CHAR), Accep(no_space_before_punct))

punct_graph ==
    Cat(<<Star(non_punct),
          Star(Union(<<Accep(no_space_before_punct),
                       AddWeight(Cat(<<delete_one_space, Accep(no_space_before_punct)>>),
                                 MIN_NEG_WEIGHT)>>)),
          Star(non_punct)>>)

punct_graph_closure == Star(punct_graph)

\* pynini.union(*brackets) reads the escaped bracket as the bracket itself
Unescaped(b) == IF b = "\\[" THEN "[" ELSE b

no_space_after_punct == CDRewrite(" ", <<>>, {Unescaped(b) : b \in Range(brackets)})

get_punct_postprocess_graph == Compose(punct_graph_closure, no_space_after_punct)

\* the best-path output of  sentence @ fst
post_process(s) == {c.out : c \in ShortestPaths(Apply(get_punct_postprocess_graph, s))}

(***************************************************************************)
(* Sentences: every string of up to MaxSentence characters over a space, a *)
(* letter, a comma, an opening bracket and a dash, and some with the       *)
(* other marks.                                                            *)
(***************************************************************************)
MaxSentence == 5

PostChars == {" ", "a", ",", "(", "-"}

OtherSentences ==
    { <<"a", " ", "[", " ", "a">>, <<"a", " ", "\"", "a", " ", "\"">>, <<"a", " ", "|">>,
      <<"(", " ", "a", " ", ")">>, <<"a", " ", " ", "!">>, <<"a", " ", ".", " ", "a">>,
      <<"[", " ", " ", "7", " ", "/">>, <<"a", "\t", ",">> }

Sentences == UNION {[1..n -> PostChars] : n \in 0..MaxSentence} \cup OtherSentences

(***************************************************************************)
(* The tagging of one input: compose it with self.fst, take the shortest   *)
(* path, wrap the result as a token.                                       *)
(***************************************************************************)
TypeOK ==
    /\ stage \in {"input", "lattice", "tagged", "rejected", "tokens", "sentence", "once", "twice", "construction"}
    /\ input \in Seq(NEMO_CHAR)

\* input @ self.fst
Classify ==
    /\ stage = "input"
    /\ lattice' = Lattice(input)
    /\ stage' = "lattice"
    /\ UNCHANGED <<input, best, output>>
    /\ UNCHANGED cacheVars

\* pynini.shortestpath(lattice)
ShortestPath ==
    /\ stage = "lattice"
    /\ lattice # {}
    /\ \E c \in ShortestPaths(lattice) : best' = c
    /\ stage' = "tagged"
    /\ UNCHANGED <<input, lattice, output>>
    /\ UNCHANGED cacheVars

\* no path: the span is not a measure
Unrecognized ==
    /\ stage = "lattice"
    /\ lattice = {}
    /\ stage' = "rejected"
    /\ UNCHANGED <<input, lattice, best, output>>
    /\ UNCHANGED cacheVars

\* tokens { ... } around the tagging
Tokenize ==
    /\ stage = "tagged"
    /\ output' = WrapTokens(best.out)
    /\ stage' = "tokens"
    /\ UNCHANGED <<input, lattice, best>>
    /\ UNCHANGED cacheVars

\* no cache directory, no file, no construction under way
NoConstruction == dirs = {} /\ files = <<>> /\ ctor = <<>>

Start(inputs) ==
    /\ input \in inputs
    /\ stage = "input"
    /\ lattice = {}
    /\ best = NoPath
    /\ output = <<>>
    /\ NoConstruction

Init == Start(MeasureInputs \cup ExceptionInputs)

Next == Classify \/ ShortestPath \/ Unrecognized \/ Tokenize

Spec == Init /\ [][Next]_vars

\* post-processing of a verbalized sentence: sentence @ self.fst, best path
PostProcess ==
    /\ stage = "sentence"
    /\ \E o \in post_process(input) :
           /\ best' = [alt |-> "post_process_graph", out |-> o, w |-> 0]
           /\ output' = o
    /\ stage' = "once"
    /\ UNCHANGED <<input, lattice>>
    /\ UNCHANGED cacheVars

\* the post-processor applied to its own output
PostProcessAgain ==
    /\ stage = "once"
    /\ \E o \in post_process(output) : output' = o
    /\ stage' = "twice"
    /\ UNCHANGED <<input, lattice, best>>
    /\ UNCHANGED cacheVars

InitPost ==
    /\ input \in Sentences
    /\ stage = "sentence"
    /\ lattice = {}
    /\ best = NoPath
    /\ output = <<>>
    /\ NoConstruction

NextPost == PostProcess \/ PostProcessAgain

SpecPost == InitPost /\ [][NextPost]_vars

\* the same tagger over the address inputs
InitAddress == Start(AddressInputs)

SpecAddress == InitAddress /\ [][Next]_vars

(***************************************************************************)
(* verbalizers/post_processing.py: PostProcessingFst.__init__, the cached  *)
(* construction.  The file system is the set of directories and the far    *)
(* files by path; a construction is a record of its arguments, its locals  *)
(* and its position in __init__.  No construction takes a lock, so the     *)
(* steps of several constructions interleave freely.                       *)
(***************************************************************************)
MaxConstructions == 3

Constructions == 1..MaxConstructions

\* Python's None; "None" is the string
PyNone == "<None>"

CacheDirs == {PyNone, "None", "cache"}

\* self.fst before it is assigned
NoFst == [t |-> "none"]

\* far_file = None
NoFarFile == <<>>

\* os.path.join(cache_dir, "hi_tn_post_processing.far")
FarFile(cache_dir) == <<cache_dir, "hi_tn_post_processing.far">>

\* generator_main(far_file, {"post_process_graph": fst}): the archive, by key
Archive(fst) == {<<"post_process_graph", fst>>}

\* pynini.Far(far_file, mode="r")[key]
FarRead(archive, key) == (CHOOSE e \in archive : e[1] = key)[2]

\* os.path.exists
Exists(path) == path \in DOMAIN files

\* cache_dir is not None and cache_dir != "None"
CacheGiven(c) == c.cache_dir # PyNone /\ c.cache_dir # "None"

\* the condition with overwrite_cache not looked at
RestoreWheneverPresent(c) == c.far_file # NoFarFile /\ Exists(c.far_file)

\* not overwrite_cache and far_file and os.path.exists(far_file)
RestoreFromCache(c) == ~c.overwrite_cache /\ c.far_file # NoFarFile /\ Exists(c.far_file)

\* a construction at the head of __init__
NewConstruction(cache_dir, overwrite_cache) ==
    [cache_dir |-> cache_dir, overwrite_cache |-> overwrite_cache, far_file |-> NoFarFile,
     fst |-> NoFst, pc |-> "far_file", found |-> FALSE, restored |-> FALSE, built |-> FALSE,
     written |-> FALSE]

\* far_file = None; if a cache directory is given: os.makedirs and the path of the file
ResolveFarFile(p) ==
    LET c == ctor[p]
    IN /\ c.pc = "far_file"
       /\ IF CacheGiven(c)
          THEN /\ dirs' = dirs \cup {c.cache_dir}
               /\ ctor' = [ctor EXCEPT ![p].far_file = FarFile(c.cache_dir), ![p].pc = "test"]
          ELSE /\ dirs' = dirs
               /\ ctor' = [ctor EXCEPT ![p].pc = "test"]
       /\ UNCHANGED <<files, textVars>>

\* the file is there and may be used: self.fst is read from it
Restore(p) ==
    LET c == ctor[p]
    IN /\ c.pc = "test"
       /\ RestoreFromCache(c)
       /\ ctor' = [ctor EXCEPT ![p].fst = FarRead(files[c.far_file], "post_process_graph"),
                               ![p].found = TRUE, ![p].restored = TRUE, ![p].pc = "done"]
       /\ UNCHANGED <<dirs, files, textVars>>

\* otherwise self.fst = self.get_punct_postprocess_graph()
Build(p) ==
    LET c == ctor[p]
    IN /\ c.pc = "test"
       /\ ~RestoreFromCache(c)
       /\ ctor' = [ctor EXCEPT ![p].fst = get_punct_postprocess_graph,
                               ![p].found = (c.far_file # NoFarFile /\ Exists(c.far_file)),
                               ![p].built = TRUE,
                               ![p].pc = IF c.far_file # NoFarFile THEN "write" ELSE "done"]
       /\ UNCHANGED <<dirs, files, textVars>>

\* if far_file: generator_main(far_file, {"post_process_graph": self.fst})
Write(p) ==
    LET c == ctor[p]
    IN /\ c.pc = "write"
       /\ files' = (c.far_file :> Archive(c.fst)) @@ files
       /\ ctor' = [ctor EXCEPT ![p].written = TRUE, ![p].pc = "done"]
       /\ UNCHANGED <<dirs, textVars>>

\* fresh directories, and MaxConstructions constructions with any arguments
InitCache ==
    /\ input = <<>>
    /\ stage = "construction"
    /\ lattice = {}
    /\ best = NoPath
    /\ output = <<>>
    /\ dirs = {}
    /\ files = <<>>
    /\ ctor \in [Constructions ->
                    {NewConstruction(d, o) : d \in CacheDirs, o \in BOOLEAN}]

NextCache ==
    \E p \in DOMAIN ctor : ResolveFarFile(p) \/ Restore(p) \/ Build(p) \/ Write(p)

SpecCache == InitCache /\ [][NextCache]_vars

(***************************************************************************)
(* Reading an input and a tagging.                                         *)
(***************************************************************************)
EndsWith(s, suf) ==
    /\ Len(s) >= Len(suf)
    /\ SubSeq(s, Len(s) - Len(suf) + 1, Len(s)) = suf

Negative(s) == s # <<>> /\ s[1] = "-"

StripSign(s) == IF Negative(s) THEN Tail(s) ELSE s

RECURSIVE StripSpaces(_)
StripSpaces(s) ==
    IF s # <<>> /\ s[Len(s)] \in NEMO_WHITE_SPACE THEN StripSpaces(SubSeq(s, 1, Len(s) - 1)) ELSE s

\* the number of an input  [-]<number>[white space]<unit>
NumberBefore(s, u) == StripSpaces(SubSeq(StripSign(s), 1, Len(StripSign(s)) - Len(u)))

IsDigits(n) == n # <<>> /\ \A k \in 1..Len(n) : n[k] \in any_digit

IsZeroChar(c) == c \in {"0", "D0"}

\* a cardinal as written: digits, no leading zero
IsCardinal(n) == IsDigits(n) /\ (Len(n) > 1 => ~IsZeroChar(n[1]))

HasPoint(n) == \E k \in 1..Len(n) : n[k] = "."

PointAt(n) == CHOOSE k \in 1..Len(n) : n[k] = "."

IntegerPartOf(n) == SubSeq(n, 1, PointAt(n) - 1)

FractionalPartOf(n) == SubSeq(n, PointAt(n) + 1, Len(n))

IsDecimal(n) == HasPoint(n) /\ IsCardinal(IntegerPartOf(n)) /\ IsDigits(FractionalPartOf(n))

\* the fractional parts the idioms take: .5 (sadhe, dedh, dhai), .25 (savva), .75 (paune)
IdiomFractions ==
    {Literal(G, f) : G \in GlyphSets, f \in {<<"5">>, <<"2", "5">>, <<"7", "5">>}}

IsIdiomDecimal(n) == IsDecimal(n) /\ FractionalPartOf(n) \in IdiomFractions

HasToken(out, key) == \E k \in 1..Len(out) : out[k] = key

\* the first symbol of the value of field  key: "<value>"
FieldAfter(out, key) ==
    LET k == CHOOSE i \in 1..Len(out) : out[i] = key IN out[k + 3]

\* the whole value of field  key , up to the closing quote
FieldOf(out, key) ==
    LET k == CHOOSE i \in 1..Len(out) : out[i] = key
        e == CHOOSE j \in (k + 3)..Len(out) :
                 out[j] = "\"" /\ \A m \in (k + 3)..(j - 1) : out[m] # "\""
    IN SubSeq(out, k + 3, e - 1)

Tagged == stage \in {"tagged", "tokens"}

Classified == stage \in {"lattice", "tagged", "tokens", "rejected"}

Of(alts) == {c \in lattice : c.alt \in alts}

(***************************************************************************)
(* The claims.                                                             *)
(***************************************************************************)
IsYearInput == EndsWith(input, <<"y", "r">>)

YearNumber == NumberBefore(input, <<"y", "r">>)

InformalYear == "saal"

FormalYear == "varsh"

\* C1: for an accepted input [-]<number>yr the unit of the shortest path is the
\* informal year when the number is a cardinal below 1000 (at most three digits) and
\* the formal year when it is a cardinal of 1000 or more or a decimal that is no
\* idiom; no path through the general unit table (graph_cardinal, graph_decimal)
\* accepts the unit yr.
C1_YearUnitByMagnitude ==
    (Tagged /\ IsYearInput) =>
        LET n == YearNumber
            u == FieldAfter(best.out, "units:")
        IN /\ (IsCardinal(n) /\ Len(n) <= 3) => u = InformalYear
           /\ (IsCardinal(n) /\ Len(n) >= 4) => u = FormalYear
           /\ (IsDecimal(n) /\ ~IsIdiomDecimal(n)) => u = FormalYear
           /\ Of({"graph_cardinal", "graph_decimal"}) = {}

\* C1 witness: 1000yr is tagged with the formal year, with the informal year's
\* alternative refusing it
C1_Witness ==
    /\ stage = "tagged"
    /\ input = <<"1", "0", "0", "0", "y", "r">>
    /\ FieldAfter(best.out, "units:") = FormalYear
    /\ best.alt = "graph_cardinal_year_formal"

IdiomAlternatives == {"graph_dedh_dhai", "graph_sadhe", "graph_paune"}

\* the idiom literals of the claim: 0.5, 1.5, 2.5 and <int>.75, in either glyph set
IsIdiomLiteral(n) ==
    \/ \E G \in GlyphSets :
           n \in {Literal(G, <<"0", ".", "5">>), Literal(G, <<"1", ".", "5">>),
                  Literal(G, <<"2", ".", "5">>)}
    \/ IsDecimal(n) /\ \E G \in GlyphSets : FractionalPartOf(n) = Literal(G, <<"7", "5">>)

IdiomInput ==
    \E u \in {<<"k", "g">>, <<"y", "r">>, <<"g">>, <<"ki_", "lo_">>} :
        EndsWith(input, u) /\ IsIdiomLiteral(NumberBefore(input, u))

\* C2: when an idiom literal is accepted both by an idiomatic alternative and by
\* graph_decimal, every idiomatic path weighs strictly less than every graph_decimal
\* path, and the shortest path is an idiomatic one.
C2_IdiomPrecedence ==
    (Classified /\ IdiomInput /\ Of(IdiomAlternatives) # {} /\ Of({"graph_decimal"}) # {}) =>
        /\ \A i \in Of(IdiomAlternatives) : \A d \in Of({"graph_decimal"}) : i.w < d.w
        /\ Tagged => best.alt \in IdiomAlternatives

\* C2 witness: 1.75kg is tagged "paune do" although graph_decimal accepts it too
C2_Witness ==
    /\ stage = "tagged"
    /\ input = <<"1", ".", "7", "5", "k", "g">>
    /\ Of({"graph_decimal"}) # {}
    /\ best.alt = "graph_paune"
    /\ FieldOf(best.out, "integer:") = <<HI_PAUNE, " ", "do">>

\* an input  [-]<number>[white space]<unit>  where the unit is one of the tables'
IsMeasureInput == input \in MeasureInputs

NegativeTag == <<"negative:", " ", "\"true\"", " ">>

\* the tagging without its  negative: "true"  at symbols 9..12, right after
\* measure { cardinal {   or   measure { decimal {
WithoutNegative(out) == SubSeq(out, 1, 8) \o SubSeq(out, 13, Len(out))

RECURSIVE Depth(_, _)
Depth(out, k) ==
    IF k = 0 THEN 0
    ELSE Depth(out, k - 1) + (IF out[k] = "{" THEN 1 ELSE IF out[k] = "}" THEN -1 ELSE 0)

\* where a top-level group closes
GroupEnds(out) == {k \in 1..Len(out) : out[k] = "}" /\ Depth(out, k) = 0}

IsMultiplication ==
    \E a \in ExceptionOperands, b \in ExceptionOperands, x \in {LOWERCASE_X, UPPERCASE_X, ASTERISK} :
        /\ IsCardinal(a) /\ IsCardinal(b)
        /\ input = a \o <<x>> \o b

MultiplicationLeft == SubSeq(input, 1, (CHOOSE k \in 1..Len(input) : input[k] \notin any_digit) - 1)

MultiplicationRight ==
    SubSeq(input, (CHOOSE k \in 1..Len(input) : input[k] \notin any_digit) + 1, Len(input))

SpokenCardinal(n) == {c.out : c \in ShortestPaths(Apply(cardinal_graph, n))}

\* C9: the wrapped tagging of  <cardinal A><x, X or *><cardinal B>  is two adjacent
\* top-level groups: tokens { measure { cardinal { integer: "A" } units: "by" } } and
\* tokens { cardinal { integer: "B" } }; the braces balance and the depth is never
\* negative.
C9_TwoTokenGroups ==
    (IsMultiplication /\ Classified) =>
        /\ stage # "rejected"
        /\ stage = "tokens" =>
            LET ends == GroupEnds(output)
                e1 == CHOOSE k \in ends : \A j \in ends : k <= j
                g1 == SubSeq(output, 1, e1)
                g2 == SubSeq(output, e1 + 2, Len(output))
            IN /\ \A k \in 1..Len(output) : Depth(output, k) >= 0
               /\ Depth(output, Len(output)) = 0
               /\ Cardinality(ends) = 2
               /\ output[e1 + 1] = " "
               /\ SubSeq(g1, 1, 12) = <<"tokens", " ", "{", " ", "measure", " ", "{", " ",
                                         "cardinal", " ", "{", " ">>
               /\ FieldOf(g1, "integer:") \in SpokenCardinal(MultiplicationLeft)
               /\ FieldOf(g1, "units:") = <<HI_BY>>
               /\ SubSeq(g2, 1, 8) = <<"tokens", " ", "{", " ", "cardinal", " ", "{", " ">>
               /\ ~HasToken(g2, "units:") /\ ~HasToken(g2, "measure")
               /\ FieldOf(g2, "integer:") \in SpokenCardinal(MultiplicationRight)

\* C9 witness: 12x1 becomes two token groups
C9_Witness ==
    /\ stage = "tokens"
    /\ input = <<"1", "2", "x", "1">>
    /\ output = <<"tokens", " ", "{", " ", "measure", " ", "{", " ", "cardinal", " ", "{", " ",
                  "integer:", " ", "\"", "n12", "\"", " ", "}", " ", "units:", " ", "\"", "by",
                  "\"", " ", "}", " ", "}", " ", "tokens", " ", "{", " ", "cardinal", " ", "{",
                  " ", "integer:", " ", "\"", "ek", "\"", " ", "}", " ", "}">>

(***************************************************************************)
(* The address claims, checked under SpecAddress.                          *)
(***************************************************************************)
AddressAlternatives == {"address_graph"}

NarrowerAlternatives ==
    {Alternatives[k].name : k \in 1..Len(Alternatives)} \ AddressAlternatives

\* C3, as stated: wherever the contextual address grammar and a narrower alternative
\* both accept the input, every contextual path weighs more than the narrower
\* alternative's best path.
C3_ContextualLeastPreferred ==
    Classified =>
        \A c \in Of(AddressAlternatives) :
            \A d \in ShortestPaths(Of(NarrowerAlternatives)) : c.w > d.w

\* the keywords as the grammar reads them
KeywordStrings == address_keywords_hi.keys \cup en_to_hi_map.keys

\* the occurrences <<first, last>> of a keyword in s
KeywordAt(s) ==
    {p \in (1..Len(s)) \X (1..Len(s)) : p[1] <= p[2] /\ SubSeq(s, p[1], p[2]) \in KeywordStrings}

HasConvertible(s) == \E k \in 1..Len(s) : s[k] \in convertible_char

\* C4, as stated: an input with a keyword and no digit, hyphen, slash or convertible
\* letter gets no path through the contextual address grammar.
C4_NoTagWithoutBody ==
    (Classified /\ KeywordAt(input) # {} /\ ~HasConvertible(input)) =>
        Of(AddressAlternatives) = {}

\* s cut at its single spaces
RECURSIVE Split(_)
Split(s) ==
    IF \A k \in 1..Len(s) : s[k] # NEMO_SPACE THEN <<s>>
    ELSE LET k == CHOOSE i \in 1..Len(s) : s[i] = NEMO_SPACE /\ \A j \in 1..(i - 1) : s[j] # NEMO_SPACE
         IN <<SubSeq(s, 1, k - 1)>> \o Split(SubSeq(s, k + 1, Len(s)))

StripComma(t) == IF t # <<>> /\ t[Len(t)] = COMMA THEN SubSeq(t, 1, Len(t) - 1) ELSE t

IsFreeWord(t) ==
    /\ t # <<>>
    /\ \A k \in 1..Len(t) :
           t[k] \in NEMO_CHAR \ (NEMO_WHITE_SPACE \cup NEMO_DIGIT \cup NEMO_HI_DIGIT \cup {",", ".", "|"})

IsPrefixToken(t) == IsDigits(StripComma(t)) /\ Len(StripComma(t)) \in 1..4

IsTextToken(t) == IsFreeWord(StripComma(t))

IsPlaceName(t) == t \in {p[1] : p \in states_tsv \cup cities_tsv}

PostalCodeLength == 6

IsPostalCode(t) == IsDigits(t) /\ Len(t) = PostalCodeLength

\* [prefix[,] ]{word[,] }0..5 place[ postal code]
StructuredShape(s) ==
    LET T == Split(s)
        n == Len(T)
    IN \E hasPrefix \in BOOLEAN, hasCode \in BOOLEAN :
           LET first == IF hasPrefix THEN 2 ELSE 1
               place == IF hasCode THEN n - 1 ELSE n
           IN /\ first <= place
              /\ hasPrefix => IsPrefixToken(T[1])
              /\ hasCode => IsPostalCode(T[n])
              /\ IsPlaceName(T[place])
              /\ place - first <= 5
              /\ \A k \in first..(place - 1) : IsTextToken(T[k])

SpokenDigit(c) ==
    IF c \in NEMO_DIGIT THEN DigitWord[DigitValue(c) + 1]
    ELSE DigitWord[(CHOOSE d \in 0..9 : Devanagari[d + 1] = c) + 1]

\* every digit as its own word, a space between two words of adjacent digits
RECURSIVE SpokenDigits(_, _)
SpokenDigits(s, k) ==
    IF k > Len(s) THEN <<>>
    ELSE (IF s[k] \in any_digit
          THEN (IF k > 1 /\ s[k - 1] \in any_digit THEN <<" ">> ELSE <<>>) \o <<SpokenDigit(s[k])>>
          ELSE <<s[k]>>) \o SpokenDigits(s, k + 1)

\* C8: the structured address grammar accepts an input exactly when it is an optional
\* prefix of 1 to 4 digits with an optional comma and one space, at most 5 words each
\* with an optional comma and one space, a place name, and optionally one space and a
\* postal code of exactly 6 digits; its output speaks every digit as its own word and
\* leaves everything else as it is.
C8_StructuredShapeExact ==
    Classified =>
        /\ (Of({"structured_address_graph"}) # {}) <=> StructuredShape(input)
        /\ \A c \in Of({"structured_address_graph"}) :
               /\ FieldOf(c.out, "integer:") = SpokenDigits(input, 1)
               /\ c.w = 10000

\* C8 witness: a 4-digit prefix, 5 words, the place name and a 6-digit postal code
C8_Witness ==
    /\ Tagged
    /\ input = <<"1", "D2", "3", "D4", ",", " ">> \o Repeat(<<"o_", " ">>, 5)
                 \o <<"mum_", "bai_", " ", "1", "D2", "3", "D4", "5", "D6">>
    /\ best.alt = "structured_address_graph"
    /\ SubSeq(FieldOf(best.out, "integer:"), 1, 8) =
           <<"ek", " ", "do", " ", "teen", " ", "char", ",">>

\* the number of maximal runs of non-boundary characters in s
WordCount(s) ==
    Cardinality({k \in 1..Len(s) :
                    s[k] \notin word_boundary /\ (k = 1 \/ s[k - 1] \in word_boundary)})

\* a keyword occurrence p is a whole token with at most 5 words on each side
InWindow(s, p) ==
    /\ p[1] = 1 \/ s[p[1] - 1] \in word_boundary
    /\ p[2] = Len(s) \/ s[p[2] + 1] \in word_boundary
    /\ WordCount(SubSeq(s, 1, p[1] - 1)) <= 5
    /\ WordCount(SubSeq(s, p[2] + 1, Len(s))) <= 5

\* the digits from k to the end of the digit run k is in
RECURSIVE DigitRun(_, _)
DigitRun(s, k) ==
    IF k > Len(s) \/ s[k] \notin any_digit THEN <<>> ELSE <<s[k]>> \o DigitRun(s, k + 1)

\* the length of the ordinal token that starts at k: a cardinal and the suffix
OrdinalAt(s, k) ==
    LET d == DigitRun(s, k)
        e == k + Len(d)
    IN IF d # <<>> /\ IsCardinal(d) /\ e <= Len(s) /\ s[e] = "vaan_" THEN Len(d) + 1 ELSE 0

\* the length of the lexicon word that starts at k
LexiconAt(s, k) ==
    LET L == {l \in en_to_hi_map.lens : k + l - 1 <= Len(s) /\ SubSeq(s, k, k + l - 1) \in en_to_hi_map.keys}
    IN IF L = {} THEN 0 ELSE CHOOSE l \in L : TRUE

LexiconWord(w) == (CHOOSE p \in en_to_hi_map.tab : p[1] = w)[2]

SpokenChar(c) ==
    IF c \in any_digit THEN SpokenDigit(c)
    ELSE IF c \in single_letter THEN "letter_" \o c
    ELSE IF c = HYPHEN THEN "hyphen" ELSE "slash"

\* the ordinary characters from k up to the next boundary, convertible character or
\* lexicon word
RECURSIVE PlainRun(_, _)
PlainRun(s, k) ==
    IF k > Len(s) \/ s[k] \notin non_space_char \/ LexiconAt(s, k) > 0 THEN <<>>
    ELSE <<s[k]>> \o PlainRun(s, k + 1)

\* what the contextual address grammar is to say for s from k on; with  ordinals
\* an ordinal token is spoken as one ordinal, without it digit by digit
RECURSIVE SpokenAddress(_, _, _)
SpokenAddress(s, k, ordinals) ==
    IF k > Len(s) THEN <<>>
    ELSE IF s[k] \in {NEMO_SPACE, COMMA} THEN <<s[k]>> \o SpokenAddress(s, k + 1, ordinals)
    ELSE IF ordinals /\ OrdinalAt(s, k) > 0
    THEN LET l == OrdinalAt(s, k)
         IN <<" ">> \o (CHOOSE w \in SpokenCardinal(SubSeq(s, k, k + l - 2)) : TRUE) \o <<"vaan_">>
                \o SpokenAddress(s, k + l, ordinals)
    ELSE IF LexiconAt(s, k) > 0
    THEN LET l == LexiconAt(s, k)
         IN <<" ">> \o LexiconWord(SubSeq(s, k, k + l - 1)) \o SpokenAddress(s, k + l, ordinals)
    ELSE IF s[k] \in convertible_char
    THEN <<" ", SpokenChar(s[k])>> \o SpokenAddress(s, k + 1, ordinals)
    ELSE LET r == PlainRun(s, k)
         IN IF r = <<>> THEN <<"?">>
            ELSE <<" ">> \o r \o SpokenAddress(s, k + Len(r), ordinals)

AddressTagged == Tagged /\ best.alt \in AddressAlternatives

C5_PostProcessIdempotent == stage = "twice" => output = best.out

\* the marks that take no space before them, and the opening brackets
NoSpaceBeforeMarks ==
    (punct_marks_all \ {"'", "\"", "<<", "-", "--", "<", "{", "(", "["})
        \cup {"|", ",", ".", ";", ":", "!", "?"}

OpeningBrackets == {"<", "{", "(", "["}

BeforeMark(s, k) == k < Len(s) /\ s[k + 1] \in NoSpaceBeforeMarks

AfterBracket(s, k) == k > 1 /\ s[k - 1] \in OpeningBrackets

\* k follows an opening bracket with nothing but spaces in between
InBracketRun(s, k) ==
    \E j \in 1..(k - 1) : s[j] \in OpeningBrackets /\ \A m \in (j + 1)..(k - 1) : s[m] = " "

\* s without the positions in D
RECURSIVE Without(_, _, _)
Without(s, D, k) ==
    IF k > Len(s) THEN <<>>
    ELSE (IF k \in D THEN <<>> ELSE <<s[k]>>) \o Without(s, D, k + 1)

\* the sentence the post-processor was last applied to
PostInput == IF stage = "twice" THEN best.out ELSE input

PostProcessed == stage \in {"once", "twice"}

Finished == {p \in DOMAIN ctor : ctor[p].pc = "done"}

\* C11: a finished construction with no cache directory (None or "None") has built
\* the grammar and read and written no file; one with a cache directory whose far
\* file was there, overwrite_cache being false, has read the grammar from the file
\* and built and written nothing; any other has built the grammar and written it to
\* the far file; and every finished construction holds the grammar that
\* get_punct_postprocess_graph builds.
C11_ReadIfPresentElseBuildAndWrite ==
    \A p \in Finished :
        LET c == ctor[p]
        IN /\ c.fst = get_punct_postprocess_graph
           /\ ~CacheGiven(c) =>
                  c.built /\ ~c.restored /\ ~c.written /\ c.far_file = NoFarFile
           /\ (CacheGiven(c) /\ ~c.overwrite_cache /\ c.found) =>
                  c.restored /\ ~c.built /\ ~c.written
           /\ (CacheGiven(c) /\ (c.overwrite_cache \/ ~c.found)) =>
                  /\ c.built /\ c.written /\ ~c.restored
                  /\ FarRead(files[c.far_file], "post_process_graph") = get_punct_postprocess_graph
           /\ c.written => c.cache_dir \in dirs

\* C11 witness: one construction has built and written, one has read the file, and
\* one has rebuilt and rewritten it under overwrite_cache
C11_Witness ==
    \E p \in Finished, q \in Finished, r \in Finished :
        /\ ~ctor[p].found /\ ctor[p].written
        /\ ctor[q].restored /\ ctor[q].fst = get_punct_postprocess_graph
        /\ ctor[r].overwrite_cache /\ ctor[r].found /\ ctor[r].written

\* C12, as stated: when every construction is on the same cache directory with
\* overwrite_cache false and no far file to begin with, at most one of them builds
\* the grammar and at most one writes the far file.
C12_SingleFlight ==
    (\A p \in DOMAIN ctor : ctor[p].cache_dir = "cache" /\ ~ctor[p].overwrite_cache) =>
        /\ Cardinality({p \in DOMAIN ctor : ctor[p].built}) <= 1
        /\ Cardinality({p \in DOMAIN ctor : ctor[p].written}) <= 1

====
